---- MODULE Spec2Model ----
(***************************************************************************)
(* Model of the inverted-index core of snip (src/snip.go): the snip and    *)
(* snip_index tables, Index / SetIndexTermCount / SetPositions, Update,    *)
(* Remove, DropIndex and SearchIndexTerm.                                  *)
(*                                                                         *)
(* Text is a sequence of one-character strings, so that tokenization,      *)
(* stemming and the comma-joined positions encoding are computed and not   *)
(* assumed.  A table is a bag of rows: sqlite keeps no key on either       *)
(* table, so equal rows may occur more than once.                          *)
(***************************************************************************)
EXTENDS Integers, Sequences, FiniteSets, Bags, TLC

VARIABLES snip, snip_index, last

vars == <<snip, snip_index, last>>

-----------------------------------------------------------------------------
(* Bounds of the model.                                                    *)

\* largest number of rows the snip table holds
MaxSnips == 2

\* largest number of raw terms in one query
MaxTerms == 2

\* largest number of adjacent words GatherContext is asked for
MaxAdjacent == 2

\* largest word position written by SetPositions in SpecPositions
MaxPosition == 10

\* largest number of positions written by one SetPositions in SpecPositions
MaxPositionsLen == 2

\* largest number of characters of a text in SpecTokens
MaxTextLen == 4

\* largest value of the -limit flag of the search command
MaxLimit == 2

\* largest number of bytes one f.Write writes in SpecFiles
MaxBytes == 2

-----------------------------------------------------------------------------
(* Characters.                                                             *)

LowerLetters == <<"a", "b", "c", "d", "e", "f", "g", "h", "i", "j", "k", "l", "m",
                  "n", "o", "p", "q", "r", "s", "t", "u", "v", "w", "x", "y", "z">>

UpperLetters == <<"A", "B", "C", "D", "E", "F", "G", "H", "I", "J", "K", "L", "M",
                  "N", "O", "P", "Q", "R", "S", "T", "U", "V", "W", "X", "Y", "Z">>

Digits == <<"0", "1", "2", "3", "4", "5", "6", "7", "8", "9">>

Range(f) == {f[i] : i \in DOMAIN f}

\* unicode.IsLetter
IsLetter(c) == c \in Range(LowerLetters) \cup Range(UpperLetters)

\* unicode.IsDigit
IsDigit(c) == c \in Range(Digits)

\* Word_Break property values of UAX #29 used by the segmentation rules
IsWSegSpace(c) == c = " "

IsMidNumLetQ(c) == c \in {".", "'"}

IsMidNum(c) == c = ","

IsMidLetter(c) == c = ":"

\* strings.ToLower on one character
ToLowerChar(c) ==
    IF \E i \in DOMAIN UpperLetters : UpperLetters[i] = c
    THEN LowerLetters[CHOOSE i \in DOMAIN UpperLetters : UpperLetters[i] = c]
    ELSE c

\* strings.ToLower
ToLower(w) == [i \in 1..Len(w) |-> ToLowerChar(w[i])]

\* DownCase: lower-cases every word of a slice
DownCase(words) == [i \in 1..Len(words) |-> ToLower(words[i])]

-----------------------------------------------------------------------------
(* Tokenizer: SplitWords over uniseg.FirstWordInString, filtered by IsWord. *)

\* TRUE when UAX #29 puts no word boundary between data[k] and data[k+1]
NoBreak(data, k) ==
    LET a == data[k]
        b == data[k + 1]
        mid(c) == IsMidLetter(c) \/ IsMidNumLetQ(c)
        midnum(c) == IsMidNum(c) \/ IsMidNumLetQ(c)
    IN  \/ IsWSegSpace(a) /\ IsWSegSpace(b)                          \* WB3d
        \/ IsLetter(a) /\ IsLetter(b)                                \* WB5
        \/ /\ IsLetter(a) /\ mid(b)                                  \* WB6
           /\ k + 2 <= Len(data) /\ IsLetter(data[k + 2])
        \/ /\ k >= 2 /\ IsLetter(data[k - 1])                        \* WB7
           /\ mid(a) /\ IsLetter(b)
        \/ IsDigit(a) /\ IsDigit(b)                                  \* WB8
        \/ IsLetter(a) /\ IsDigit(b)                                 \* WB9
        \/ IsDigit(a) /\ IsLetter(b)                                 \* WB10
        \/ /\ k >= 2 /\ IsDigit(data[k - 1])                         \* WB11
           /\ midnum(a) /\ IsDigit(b)
        \/ /\ IsDigit(a) /\ midnum(b)                                \* WB12
           /\ k + 2 <= Len(data) /\ IsDigit(data[k + 2])

\* length of the first segment of a non-empty string
FirstWordLen(data) ==
    CHOOSE k \in 1..Len(data) :
        /\ k = Len(data) \/ ~NoBreak(data, k)
        /\ \A j \in 1..(k - 1) : NoBreak(data, j)

\* Mutant of IsWord: a segment is a word when it holds a letter or a digit.
IsWord_SomeLetterOrDigit(word) == \E i \in DOMAIN word : IsLetter(word[i]) \/ IsDigit(word[i])

\* IsWord: every character is a letter or a digit
IsWord(word) == \A i \in DOMAIN word : IsLetter(word[i]) \/ IsDigit(word[i])

RECURSIVE SplitWords(_)
\* SplitWords: the segments of data that are words, in document order
SplitWords(data) ==
    IF Len(data) = 0 THEN <<>>
    ELSE LET k == FirstWordLen(data)
             word == SubSeq(data, 1, k)
             rest == SubSeq(data, k + 1, Len(data))
         IN  IF IsWord(word) THEN <<word>> \o SplitWords(rest)
             ELSE SplitWords(rest)

\* CountWords
CountWords(data) == Len(SplitWords(data))

-----------------------------------------------------------------------------
(* Stemmer: snowball.Stem(word, "english", true).                          *)

IsVowel(c) == c \in {"a", "e", "i", "o", "u", "y"}

EndsWith(w, suf) ==
    /\ Len(w) >= Len(suf)
    /\ SubSeq(w, Len(w) - Len(suf) + 1, Len(w)) = suf

RECURSIVE TrimSpace(_)
\* strings.TrimSpace
TrimSpace(w) ==
    IF Len(w) = 0 THEN w
    ELSE IF w[1] = " " THEN TrimSpace(Tail(w))
    ELSE IF w[Len(w)] = " " THEN TrimSpace(SubSeq(w, 1, Len(w) - 1))
    ELSE w

\* Step 1a of the English (Porter2) stemmer: the plural suffixes
Step1a(w) ==
    IF EndsWith(w, <<"s", "s", "e", "s">>) THEN SubSeq(w, 1, Len(w) - 2)
    ELSE IF EndsWith(w, <<"i", "e", "d">>) \/ EndsWith(w, <<"i", "e", "s">>)
         THEN IF Len(w) > 4 THEN SubSeq(w, 1, Len(w) - 2)
              ELSE SubSeq(w, 1, Len(w) - 1)
    ELSE IF EndsWith(w, <<"u", "s">>) \/ EndsWith(w, <<"s", "s">>) THEN w
    ELSE IF EndsWith(w, <<"s">>)
         THEN IF \E i \in 1..(Len(w) - 2) : IsVowel(w[i])
              THEN SubSeq(w, 1, Len(w) - 1)
              ELSE w
    ELSE w

\* The stem of a word: lower-cased and trimmed, words of at most two letters
\* returned as they are, then the plural step.  The later Porter2 steps leave
\* every word of Texts and QueryTerms unchanged.  snowball.Stem returns an
\* error only for an unknown language, so with "english" it never fails.
Stem(word) ==
    LET w == ToLower(TrimSpace(word))
    IN  IF Len(w) <= 2 THEN w ELSE Step1a(w)

-----------------------------------------------------------------------------
(* The persisted positions encoding: a comma-joined decimal string.        *)

\* Mutant of Itoa: only the last decimal digit is written.
Itoa_LastDigit(n) == <<Digits[(n % 10) + 1]>>

RECURSIVE Itoa(_)
\* strconv.Itoa of a non-negative integer
Itoa(n) == IF n < 10 THEN <<Digits[n + 1]>> ELSE Itoa(n \div 10) \o <<Digits[(n % 10) + 1]>>

RECURSIVE Join(_)
\* strings.Join(elems, ",")
Join(elems) ==
    IF Len(elems) = 0 THEN <<>>
    ELSE IF Len(elems) = 1 THEN elems[1]
    ELSE elems[1] \o <<",">> \o Join(Tail(elems))

\* the string SetPositions stores for a list of positions
JoinPositions(positions) == Join([i \in 1..Len(positions) |-> Itoa(positions[i])])

RECURSIVE Split(_)
\* strings.Split(str, ","): always at least one element
Split(str) ==
    IF \E i \in DOMAIN str : str[i] = ","
    THEN LET i == CHOOSE j \in DOMAIN str :
                      str[j] = "," /\ \A k \in 1..(j - 1) : str[k] # ","
         IN  <<SubSeq(str, 1, i - 1)>> \o Split(SubSeq(str, i + 1, Len(str)))
    ELSE <<str>>

\* strconv.Atoi succeeds on a non-empty string of digits
AtoiOk(p) == Len(p) > 0 /\ \A i \in DOMAIN p : IsDigit(p[i])

DigitValue(c) == (CHOOSE i \in DOMAIN Digits : Digits[i] = c) - 1

RECURSIVE Atoi(_)
\* strconv.Atoi
Atoi(p) ==
    IF Len(p) = 0 THEN 0
    ELSE 10 * Atoi(SubSeq(p, 1, Len(p) - 1)) + DigitValue(p[Len(p)])

\* The integers GatherContext reads back from a stored positions string: an
\* empty last element ends the loop, any other element Atoi rejects is an error.
ParsePositions(str) ==
    LET parts == Split(str)
        n == IF parts[Len(parts)] = <<>> THEN Len(parts) - 1 ELSE Len(parts)
    IN  IF \E i \in 1..n : ~AtoiOk(parts[i])
        THEN [err |-> TRUE, positions |-> <<>>]
        ELSE [err |-> FALSE, positions |-> [i \in 1..n |-> Atoi(parts[i])]]

-----------------------------------------------------------------------------
(* Tables as bags of rows.                                                 *)

RECURSIVE SumCopies(_, _)
SumCopies(B, S) ==
    IF S = {} THEN 0
    ELSE LET r == CHOOSE x \in S : TRUE IN B[r] + SumCopies(B, S \ {r})

\* INSERT INTO
BagInsert(B, r) == B (+) SetToBag({r})

\* DELETE FROM ... WHERE: the rows of the set gone are deleted
BagDelete(B, gone) == [r \in BagToSet(B) \ gone |-> B[r]]

\* UPDATE ... SET ... WHERE: img maps every row to the row it becomes
BagUpdate(B, img) ==
    [t \in Range(img) |-> SumCopies(B, {r \in DOMAIN img : img[r] = t})]

\* SELECT count() ... WHERE: the number of rows among those of the set rows
BagCount(B, rows) == SumCopies(B, rows \cap BagToSet(B))

\* the row of a freshly created table
NoRows == EmptyBag

\* the positions column of a row inserted without one (NULL, read back as "")
NullPositions == <<>>

-----------------------------------------------------------------------------
(* Inputs.                                                                 *)

\* identifiers of snips
UUIDs == {"d1", "d2"}

\* names of snips
Names == {"n1"}

\* "Cats cat"
TextCats == <<"C", "a", "t", "s", " ", "c", "a", "t">>

\* "a cat's cat."
TextACat == <<"a", " ", "c", "a", "t", "'", "s", " ", "c", "a", "t", ".">>

\* "as dogs cat"
TextDogs == <<"a", "s", " ", "d", "o", "g", "s", " ", "c", "a", "t">>

\* texts a snip may hold
Texts == {TextCats, TextACat, TextDogs}

\* raw query terms: "cat", "Cats", "dog"
QueryTerms == {<<"c", "a", "t">>, <<"C", "a", "t", "s">>, <<"d", "o", "g">>}

\* the in-memory Snip values of the callers
Snips == [UUID : UUIDs, Name : Names, Data : Texts]

\* the terms slices of the callers, the empty slice included
TermLists == UNION {[1..n -> QueryTerms] : n \in 0..MaxTerms}

-----------------------------------------------------------------------------
(* Index: stems, counts and positions of one document.                     *)

\* Mutant of StemWords: the lower-cased words are indexed without stemming.
StemWords_NoStemming(data) == DownCase(SplitWords(data))

\* dataStemmed of Index: the stem of every lower-cased word, in document order
StemWords(data) ==
    LET dataCleaned == DownCase(SplitWords(data))
    IN  [i \in 1..Len(dataCleaned) |-> Stem(dataCleaned[i])]

\* the keys of the terms map built by Index
TermsOf(dataStemmed) == Range(dataStemmed)

\* Mutant of CountOf: a term is counted once however often it occurs.
CountOf_Once(dataStemmed, term) == IF term \in Range(dataStemmed) THEN 1 ELSE 0

\* count of Index: occurrences of term in dataStemmed
CountOf(dataStemmed, term) == Cardinality({i \in DOMAIN dataStemmed : dataStemmed[i] = term})

RECURSIVE PositionsFrom_OneBased(_, _, _)
\* Mutant of PositionsFrom: positions are 1-based word numbers.
PositionsFrom_OneBased(dataStemmed, term, from) ==
    IF from > Len(dataStemmed) THEN <<>>
    ELSE IF dataStemmed[from] = term
         THEN <<from>> \o PositionsFrom_OneBased(dataStemmed, term, from + 1)
         ELSE PositionsFrom_OneBased(dataStemmed, term, from + 1)

RECURSIVE PositionsFrom(_, _, _)
\* positions of Index: the 0-based indexes idx >= from - 1 with dataStemmed[idx] = term
PositionsFrom(dataStemmed, term, from) ==
    IF from > Len(dataStemmed) THEN <<>>
    ELSE IF dataStemmed[from] = term
         THEN <<from - 1>> \o PositionsFrom(dataStemmed, term, from + 1)
         ELSE PositionsFrom(dataStemmed, term, from + 1)

\* termsPositions[term] of Index
PositionsOf(dataStemmed, term) == PositionsFrom(dataStemmed, term, 1)

\* Mutant of GetIndexTermCount: the lookup never finds the row.
GetIndexTermCount_NeverFinds(idx, term, id) == 0

\* GetIndexTermCount: the count of a row of (term, id), 0 when there is none
GetIndexTermCount(idx, term, id) ==
    LET rows == {r \in BagToSet(idx) : r.term = term /\ r.uuid = id}
    IN  IF rows = {} THEN 0 ELSE (CHOOSE r \in rows : TRUE).count

\* Mutant of SetIndexTermCount: an existing row keeps its old count.
SetIndexTermCount_KeepsOldCount(idx, id, term, count) ==
    IF \E r \in BagToSet(idx) : r.term = term /\ r.uuid = id
    THEN idx
    ELSE BagInsert(idx, [term |-> term, uuid |-> id, count |-> count,
                         positions |-> NullPositions])

\* Mutant of SetIndexTermCount: a row is inserted whether or not one exists.
SetIndexTermCount_AlwaysInserts(idx, id, term, count) ==
    BagInsert(idx, [term |-> term, uuid |-> id, count |-> count,
                    positions |-> NullPositions])

\* SetIndexTermCount: update the count of the rows of (term, id) when
\* GetIndexTermCount is non-zero, insert a row without positions otherwise
SetIndexTermCount(idx, id, term, count) ==
    LET img == [r \in BagToSet(idx) |->
                    IF r.term = term /\ r.uuid = id THEN [r EXCEPT !.count = count] ELSE r]
    IN  IF GetIndexTermCount(idx, term, id) # 0
        THEN BagUpdate(idx, img)
        ELSE BagInsert(idx, [term |-> term, uuid |-> id, count |-> count,
                             positions |-> NullPositions])

\* Mutant of SetPositions: the rows of the term are updated for every uuid.
SetPositions_EveryUuid(idx, id, term, positions) ==
    LET img == [r \in BagToSet(idx) |->
                    IF r.term = term
                    THEN [r EXCEPT !.positions = JoinPositions(positions)]
                    ELSE r]
    IN  BagUpdate(idx, img)

\* SetPositions: store the joined positions in the rows of (term, id)
SetPositions(idx, id, term, positions) ==
    LET img == [r \in BagToSet(idx) |->
                    IF r.term = term /\ r.uuid = id
                    THEN [r EXCEPT !.positions = JoinPositions(positions)]
                    ELSE r]
    IN  BagUpdate(idx, img)

RECURSIVE SetAllCounts(_, _, _, _)
\* the first loop of Index's store writes: SetIndexTermCount for every term
SetAllCounts(idx, id, dataStemmed, todo) ==
    IF todo = {} THEN idx
    ELSE LET term == CHOOSE t \in todo : TRUE
         IN  SetAllCounts(SetIndexTermCount(idx, id, term, CountOf(dataStemmed, term)),
                          id, dataStemmed, todo \ {term})

RECURSIVE SetAllPositions(_, _, _, _)
\* the second loop of Index's store writes: SetPositions for every term
SetAllPositions(idx, id, dataStemmed, todo) ==
    IF todo = {} THEN idx
    ELSE LET term == CHOOSE t \in todo : TRUE
         IN  SetAllPositions(SetPositions(idx, id, term, PositionsOf(dataStemmed, term)),
                             id, dataStemmed, todo \ {term})

\* the words of every text a snip may hold
WordsOfText == [data \in Texts |-> SplitWords(data)]

\* dataStemmed of every text a snip may hold
StemmedText == [data \in Texts |-> StemWords(data)]

\* Mutant of IndexRows: the rows of stems that are not in the text are deleted.
IndexRows_DeletesAbsentStems(idx, s) ==
    LET dataStemmed == StemmedText[s.Data]
        terms == TermsOf(dataStemmed)
        kept == BagDelete(idx, {r \in BagToSet(idx) : r.uuid = s.UUID /\ r.term \notin terms})
    IN  SetAllPositions(SetAllCounts(kept, s.UUID, dataStemmed, terms),
                        s.UUID, dataStemmed, terms)

\* snip_index after s.Index() has returned nil
IndexRows(idx, s) ==
    LET dataStemmed == StemmedText[s.Data]
        terms == TermsOf(dataStemmed)
    IN  SetAllPositions(SetAllCounts(idx, s.UUID, dataStemmed, terms),
                        s.UUID, dataStemmed, terms)

-----------------------------------------------------------------------------
(* SearchIndexTerm.                                                        *)

\* the result map with no key
EmptyMap == [id \in {} |-> <<>>]

RECURSIVE RowsToCounts(_, _, _, _)
\* one SearchCount per selected row, as the SELECT loop appends them
RowsToCounts(idx, rows, term, stem) ==
    IF rows = {} THEN <<>>
    ELSE LET r == CHOOSE x \in rows : TRUE
         IN  [k \in 1..idx[r] |-> [Term |-> term, Stem |-> stem, Count |-> r.count]]
             \o RowsToCounts(idx, rows \ {r}, term, stem)

\* termStemmed of every raw query term
StemmedTerm == [term \in QueryTerms |-> Stem(term)]

RECURSIVE Accumulate_RawTerm(_, _, _, _)
\* Mutant of Accumulate: the rows are looked up by the raw term, not its stem.
Accumulate_RawTerm(idx, terms, i, res) ==
    IF i > Len(terms) THEN res
    ELSE LET rows == {r \in BagToSet(idx) : r.term = terms[i]}
             ids == {r.uuid : r \in rows}
             old(id) == IF id \in DOMAIN res THEN res[id] ELSE <<>>
             next == [id \in DOMAIN res \cup ids |->
                        old(id) \o RowsToCounts(idx, {r \in rows : r.uuid = id},
                                                terms[i], StemmedTerm[terms[i]])]
         IN  Accumulate_RawTerm(idx, terms, i + 1, next)

RECURSIVE Accumulate(_, _, _, _)
\* the loop over terms: every row of the stem of terms[i] appends one
\* SearchCount to the list of its uuid
Accumulate(idx, terms, i, res) ==
    IF i > Len(terms) THEN res
    ELSE LET termStemmed == StemmedTerm[terms[i]]
             rows == {r \in BagToSet(idx) : r.term = termStemmed}
             ids == {r.uuid : r \in rows}
             old(id) == IF id \in DOMAIN res THEN res[id] ELSE <<>>
             next == [id \in DOMAIN res \cup ids |->
                        old(id) \o RowsToCounts(idx, {r \in rows : r.uuid = id},
                                                terms[i], termStemmed)]
         IN  Accumulate(idx, terms, i + 1, next)

\* termsCollected of the pruning loop: the distinct Term labels of a match list
TermsCollected(result) == {result[k].Term : k \in DOMAIN result}

\* Mutant of Prune: an id is kept when it collected len(terms) distinct stems.
Prune_ByStem(res, terms) ==
    LET stems(result) == {result[k].Stem : k \in DOMAIN result}
        keep == {id \in DOMAIN res : Cardinality(stems(res[id])) = Len(terms)}
    IN  [id \in keep |-> res[id]]

\* the pruning under requireAll: keep an id when it collected len(terms) terms
Prune(res, terms) ==
    LET keep == {id \in DOMAIN res : Cardinality(TermsCollected(res[id])) = Len(terms)}
    IN  [id \in keep |-> res[id]]

\* Mutant of SearchIndexTerm: the empty terms slice is not rejected.
SearchIndexTerm_NoEmptyCheck(idx, terms, requireAll) ==
    LET res == Accumulate(idx, terms, 1, EmptyMap)
    IN  [results |-> IF requireAll THEN Prune(res, terms) ELSE res,
         err |-> FALSE, reads |-> Len(terms)]

\* Mutant of SearchIndexTerm: a query that matches nothing returns an error.
SearchIndexTerm_ErrorOnNoMatch(idx, terms, requireAll) ==
    IF Len(terms) <= 0
    THEN [results |-> EmptyMap, err |-> TRUE, reads |-> 0]
    ELSE LET res == Accumulate(idx, terms, 1, EmptyMap)
             out == IF requireAll THEN Prune(res, terms) ELSE res
         IN  [results |-> out, err |-> out = EmptyMap, reads |-> Len(terms)]

\* SearchIndexTerm: the result map, the error, and the number of SELECTs issued
SearchIndexTerm(idx, terms, requireAll) ==
    IF Len(terms) <= 0
    THEN [results |-> EmptyMap, err |-> TRUE, reads |-> 0]
    ELSE LET res == Accumulate(idx, terms, 1, EmptyMap)
         IN  [results |-> IF requireAll THEN Prune(res, terms) ELSE res,
              err |-> FALSE, reads |-> Len(terms)]

\* the stem that is looked up for a term whose snowball.Stem call returned an
\* error: the zero value of termStemmed
NoStem == <<>>

RECURSIVE AccumulateStems(_, _, _, _, _)
\* The loop over terms when the snowball.Stem call of the terms at the indexes
\* bad returns an error: err is assigned again by Prepare before it is read,
\* so the loop goes on and looks up the empty termStemmed.
AccumulateStems(idx, terms, bad, i, res) ==
    IF i > Len(terms) THEN res
    ELSE LET termStemmed == IF i \in bad THEN NoStem ELSE StemmedTerm[terms[i]]
             rows == {r \in BagToSet(idx) : r.term = termStemmed}
             ids == {r.uuid : r \in rows}
             old(id) == IF id \in DOMAIN res THEN res[id] ELSE <<>>
             next == [id \in DOMAIN res \cup ids |->
                        old(id) \o RowsToCounts(idx, {r \in rows : r.uuid = id},
                                                terms[i], termStemmed)]
         IN  AccumulateStems(idx, terms, bad, i + 1, next)

\* SearchIndexTerm when the Stem calls of the terms at the indexes bad fail
SearchIndexTermStemError(idx, terms, requireAll, bad) ==
    IF Len(terms) <= 0
    THEN [results |-> EmptyMap, err |-> TRUE, reads |-> 0]
    ELSE LET res == AccumulateStems(idx, terms, bad, 1, EmptyMap)
         IN  [results |-> IF requireAll THEN Prune(res, terms) ELSE res,
              err |-> FALSE, reads |-> Len(terms)]

-----------------------------------------------------------------------------
(* ScoreCounts.  A float64 is held as the exact quotient num / den of the  *)
(* integers it was computed from.                                          *)

\* float64(a) / float64(b)
Quot(a, b) == [num |-> a, den |-> b]

\* x + y
RatAdd(x, y) == [num |-> x.num * y.den + y.num * x.den, den |-> x.den * y.den]

\* x / 2.0
RatHalf(x) == [num |-> x.num, den |-> 2 * x.den]

\* the zero value of a float64 variable
RatZero == Quot(0, 1)

RECURSIVE SumCounts(_, _)
\* sum(count) over the rows of the set rows, every copy counted
SumCounts(idx, rows) ==
    IF rows = {} THEN 0
    ELSE LET r == CHOOSE x \in rows : TRUE
         IN  idx[r] * r.count + SumCounts(idx, rows \ {r})

\* Mutant of CumulativeTermsCount: the rows are counted, not their counts summed.
CumulativeTermsCount_RowCount(idx, id) ==
    BagCount(idx, {r \in BagToSet(idx) : r.uuid = id})

\* CumulativeTermsCount: SELECT sum(count) WHERE uuid = id, 0 when no row
CumulativeTermsCount(idx, id) ==
    SumCounts(idx, {r \in BagToSet(idx) : r.uuid = id})

\* ScoreCounts(id, terms, counts)
ScoreCounts(idx, id, terms, counts) ==
    LET matchTermsRatio == Quot(Len(counts), Len(terms))
        indexedTerms == CumulativeTermsCount(idx, id)
        matchProminence == IF indexedTerms # 0
                           THEN Quot(Len(terms), indexedTerms)
                           ELSE RatZero
    IN  RatHalf(RatAdd(matchTermsRatio, matchProminence))

-----------------------------------------------------------------------------
(* GatherContext.                                                          *)

\* GetPositions: the positions column of a row of (term, id), "" when there
\* is none
GetPositions(idx, id, term) ==
    LET rows == {r \in BagToSet(idx) : r.term = term /\ r.uuid = id}
    IN  IF rows = {} THEN <<>> ELSE (CHOOSE r \in rows : TRUE).positions

\* words[i] panics with an index out of range
OutOfRange(words, i) == i < 0 \/ i >= Len(words)

\* Mutant of TermContextAt: the words after the term start at the term.
TermContextAt_AfterFromTerm(words, position, adjacent) ==
    LET start == IF position - adjacent < 0 THEN 0 ELSE position - adjacent
        lastElement == IF position + adjacent >= Len(words) - 1
                       THEN Len(words) - 1
                       ELSE position + adjacent
    IN  [BeforeStart |-> IF start < position THEN start + 1 ELSE 0,
         Before |-> [i \in 1..(position - start) |-> words[start + i]],
         Term |-> words[position + 1],
         AfterEnd |-> lastElement + 1,
         After |-> [i \in 1..(lastElement - position + 1) |-> words[position + i]]]

\* One pass of the loop over positions, for a position inside words.  The
\* 0-based words[i] of the code is words[i + 1] here.  BeforeStart is assigned
\* in the first iteration of the loop over the words before the term, so it
\* keeps its zero value when that loop has no iteration.
TermContextAt(words, position, adjacent) ==
    LET start == IF position - adjacent < 0 THEN 0 ELSE position - adjacent
        lastElement == IF position + adjacent >= Len(words) - 1
                       THEN Len(words) - 1
                       ELSE position + adjacent
    IN  [BeforeStart |-> IF start < position THEN start + 1 ELSE 0,
         Before |-> [i \in 1..(position - start) |-> words[start + i]],
         Term |-> words[position + 1],
         AfterEnd |-> lastElement + 1,
         After |-> [i \in 1..(lastElement - position) |-> words[position + 1 + i]]]

\* Mutant of GatherContext: the positions are looked up by the raw term.
GatherContext_RawTerm(idx, s, term, adjacent) ==
    LET parsed == ParsePositions(GetPositions(idx, s.UUID, term))
        words == WordsOfText[s.Data]
        positionsSplitInt == parsed.positions
    IN  IF parsed.err
        THEN [ctxAll |-> <<>>, err |-> TRUE, panic |-> FALSE]
        ELSE IF \E k \in DOMAIN positionsSplitInt : OutOfRange(words, positionsSplitInt[k])
        THEN [ctxAll |-> <<>>, err |-> FALSE, panic |-> TRUE]
        ELSE [ctxAll |-> [k \in DOMAIN positionsSplitInt |->
                             TermContextAt(words, positionsSplitInt[k], adjacent)],
              err |-> FALSE, panic |-> FALSE]

\* s.GatherContext(term, adjacent): the contexts, the error, and whether the
\* call panicked on words[position]
GatherContext(idx, s, term, adjacent) ==
    LET termStemmed == StemmedTerm[term]
        parsed == ParsePositions(GetPositions(idx, s.UUID, termStemmed))
        words == WordsOfText[s.Data]
        positionsSplitInt == parsed.positions
    IN  IF parsed.err
        THEN [ctxAll |-> <<>>, err |-> TRUE, panic |-> FALSE]
        ELSE IF \E k \in DOMAIN positionsSplitInt : OutOfRange(words, positionsSplitInt[k])
        THEN [ctxAll |-> <<>>, err |-> FALSE, panic |-> TRUE]
        ELSE [ctxAll |-> [k \in DOMAIN positionsSplitInt |->
                             TermContextAt(words, positionsSplitInt[k], adjacent)],
              err |-> FALSE, panic |-> FALSE]

-----------------------------------------------------------------------------
(* The state machine: one action per call of the package's API.            *)

\* What the last call was and what it returned; again marks an Index call that
\* directly follows an Index call on the same snip with the same Data.
Call(op, id, data, terms, requireAll, res) ==
    [op |-> op, uuid |-> id, data |-> data, terms |-> terms, requireAll |-> requireAll,
     results |-> res.results, err |-> res.err, reads |-> res.reads, again |-> FALSE]

Ok == [results |-> EmptyMap, err |-> FALSE, reads |-> 0]

Failed == [results |-> EmptyMap, err |-> TRUE, reads |-> 0]

\* CreateNewDatabase: both tables empty
Init ==
    /\ snip = NoRows
    /\ snip_index = NoRows
    /\ last = Call("CreateNewDatabase", "", <<>>, <<>>, FALSE, Ok)

\* InsertSnip(s): one more row, whatever the table holds
InsertSnip(s) ==
    /\ BagCardinality(snip) < MaxSnips
    /\ snip' = BagInsert(snip, s)
    /\ last' = Call("InsertSnip", s.UUID, <<>>, <<>>, FALSE, Ok)
    /\ UNCHANGED snip_index

\* Mutant of UpdateRows: the record keeps its name.
UpdateRows_KeepsName(tbl, s) ==
    LET img == [r \in BagToSet(tbl) |->
                    IF r.UUID = s.UUID THEN [r EXCEPT !.Data = s.Data] ELSE r]
    IN  BagUpdate(tbl, img)

\* the snip table after s.Update() has passed its check
UpdateRows(tbl, s) ==
    LET img == [r \in BagToSet(tbl) |->
                    IF r.UUID = s.UUID THEN [r EXCEPT !.Data = s.Data, !.Name = s.Name]
                    ELSE r]
    IN  BagUpdate(tbl, img)

\* s.Update(): an error unless exactly one record has the uuid
Update(s) ==
    LET found == {r \in BagToSet(snip) : r.UUID = s.UUID}
    IN  /\ IF BagCount(snip, found) # 1
           THEN /\ snip' = snip
                /\ last' = Call("Update", s.UUID, <<>>, <<>>, FALSE, Failed)
           ELSE /\ snip' = UpdateRows(snip, s)
                /\ last' = Call("Update", s.UUID, <<>>, <<>>, FALSE, Ok)
        /\ UNCHANGED snip_index

\* s.Index() on a snip read from the table
Index(s) ==
    /\ BagIn(s, snip)
    /\ snip_index' = IndexRows(snip_index, s)
    /\ last' = [Call("Index", s.UUID, s.Data, <<>>, FALSE, Ok) EXCEPT
                  !.again = last.op = "Index" /\ last.uuid = s.UUID /\ last.data = s.Data]
    /\ UNCHANGED snip

\* the snip table after Remove(id)
RemoveRows(tbl, id) == BagDelete(tbl, {r \in BagToSet(tbl) : r.UUID = id})

\* the index table after Remove(id)
RemoveIndexRows(idx, id) == idx

\* Remove(id): the snip_attachment table is not part of this model; Remove
\* has no statement on snip_index.
Remove(id) ==
    /\ snip' = RemoveRows(snip, id)
    /\ snip_index' = RemoveIndexRows(snip_index, id)
    /\ last' = Call("Remove", id, <<>>, <<>>, FALSE, Ok)

\* Mutant of DropIndexRows: the rows are kept.
DropIndexRows_KeepsRows(idx) == idx

\* the index table after DropIndex()
DropIndexRows(idx) == NoRows

\* DropIndex()
DropIndex ==
    /\ snip_index' = DropIndexRows(snip_index)
    /\ last' = Call("DropIndex", "", <<>>, <<>>, FALSE, Ok)
    /\ UNCHANGED snip

\* SearchIndexTerm(terms, requireAll)
Search(terms, requireAll) ==
    /\ last' = Call("SearchIndexTerm", "", <<>>, terms, requireAll,
                    SearchIndexTerm(snip_index, terms, requireAll))
    /\ UNCHANGED <<snip, snip_index>>

\* the match list a caller holds for id after a search: nil when id is no key
CountsOf(results, id) == IF id \in DOMAIN results THEN results[id] ELSE <<>>

\* ScoreCounts(id, terms, counts) with the terms and the result of the search
\* the caller has just made
Score(id) ==
    /\ last.op \in {"SearchIndexTerm", "ScoreCounts"}
    /\ ~last.err
    /\ last' = [op |-> "ScoreCounts", uuid |-> id, data |-> <<>>, terms |-> last.terms,
                requireAll |-> last.requireAll, results |-> last.results,
                err |-> FALSE, reads |-> 0, again |-> FALSE,
                score |-> ScoreCounts(snip_index, id, last.terms,
                                      CountsOf(last.results, id))]
    /\ UNCHANGED <<snip, snip_index>>

\* s.GatherContext(term, adjacent) on a snip read from the table
Context(s, term, adjacent) ==
    LET res == GatherContext(snip_index, s, term, adjacent)
    IN  /\ BagIn(s, snip)
        /\ last' = [op |-> "GatherContext", uuid |-> s.UUID, data |-> s.Data,
                    terms |-> <<term>>, requireAll |-> FALSE, results |-> EmptyMap,
                    err |-> res.err, reads |-> 0, again |-> FALSE,
                    adjacent |-> adjacent, ctxAll |-> res.ctxAll, panic |-> res.panic]
        /\ UNCHANGED <<snip, snip_index>>

\* the calls that write the store
Next ==
    \/ \E s \in Snips : InsertSnip(s)
    \/ \E s \in Snips : Update(s)
    \/ \E s \in Snips : Index(s)
    \/ \E id \in UUIDs : Remove(id)
    \/ DropIndex

Spec == Init /\ [][Next]_vars

\* a store that already holds one snip for every uuid, not yet indexed
InitSearch ==
    /\ \E data \in [UUIDs -> Texts], name \in [UUIDs -> Names] :
          snip = SetToBag({[UUID |-> id, Name |-> name[id], Data |-> data[id]] : id \in UUIDs})
    /\ snip_index = NoRows
    /\ last = Call("InsertSnip", CHOOSE id \in UUIDs : TRUE, <<>>, <<>>, FALSE, Ok)

\* the calls of a caller that indexes, removes, searches and scores
NextSearch ==
    \/ \E s \in Snips : Index(s)
    \/ \E id \in UUIDs : Remove(id)
    \/ DropIndex
    \/ \E terms \in TermLists, requireAll \in BOOLEAN : Search(terms, requireAll)
    \/ \E id \in UUIDs : Score(id)

SpecSearch == InitSearch /\ [][NextSearch]_vars

\* the calls of a caller that edits, indexes and displays contexts
NextContext ==
    \/ \E s \in Snips : Update(s)
    \/ \E s \in Snips : Index(s)
    \/ \E s \in Snips, term \in QueryTerms, adjacent \in 0..MaxAdjacent :
          Context(s, term, adjacent)

SpecContext == InitSearch /\ [][NextContext]_vars

-----------------------------------------------------------------------------
(* The search command of the CLI with -type index: search, score, sort,    *)
(* limit and print.  What is printed is held as the list of the scores     *)
(* printed, in order; the lines of context under each are not modelled.    *)

\* scores[i].Score > scores[j].Score
RatGreater(x, y) == x.num * y.den > y.num * x.den

\* Mutant of SortedOrders: the slice is sorted by lowest score.
SortedOrders_Ascending(results, terms, idx) ==
    LET keys == DOMAIN results
        score(id) == ScoreCounts(idx, id, terms, results[id])
    IN  {f \in [1..Cardinality(keys) -> keys] :
            /\ \A i, j \in DOMAIN f : f[i] = f[j] => i = j
            /\ \A i, j \in DOMAIN f : i < j => ~RatGreater(score(f[i]), score(f[j]))}

\* The orders sort.Slice can leave the scores slice in: the map is ranged
\* over in any order and the sort is not stable, so every order in which no
\* element has a greater score than an element before it is possible.
SortedOrders(results, terms, idx) ==
    LET keys == DOMAIN results
        score(id) == ScoreCounts(idx, id, terms, results[id])
    IN  {f \in [1..Cardinality(keys) -> keys] :
            /\ \A i, j \in DOMAIN f : f[i] = f[j] => i = j
            /\ \A i, j \in DOMAIN f : i < j => ~RatGreater(score(f[j]), score(f[i]))}

\* the search command: exit on a search error, panic on scores[:limit] with a
\* negative limit, print the scores otherwise
SearchCmd(terms, limit) ==
    LET res == SearchIndexTerm(snip_index, terms, TRUE)
        entry(id) == [UUID |-> id,
                      Score |-> ScoreCounts(snip_index, id, terms, res.results[id])]
    IN  /\ \E order \in SortedOrders(res.results, terms, snip_index) :
              LET scores == [i \in DOMAIN order |-> entry(order[i])]
                  cut == limit # 0 /\ Len(scores) > limit
              IN  last' = [op |-> "search", terms |-> terms, limit |-> limit,
                           found |-> Len(scores),
                           err |-> res.err,
                           panic |-> ~res.err /\ cut /\ limit < 0,
                           printed |-> IF res.err \/ (cut /\ limit < 0) THEN <<>>
                                       ELSE IF cut THEN SubSeq(scores, 1, limit)
                                       ELSE scores,
                           dropped |-> IF res.err \/ ~cut \/ limit < 0 THEN <<>>
                                       ELSE SubSeq(scores, limit + 1, Len(scores))]
        /\ UNCHANGED <<snip, snip_index>>

\* the calls of a user who indexes and runs the search command
NextCmd ==
    \/ \E s \in Snips : Index(s)
    \/ \E terms \in TermLists, limit \in (-1)..MaxLimit : SearchCmd(terms, limit)

SpecCmd == InitSearch /\ [][NextCmd]_vars

-----------------------------------------------------------------------------
(* WriteAttachment.  The files of the working directory are held in the    *)
(* files field of last: a path has the bytes of its file, or NoFile.        *)

\* no file at a path
NoFile == "none"

\* the paths an attachment is written to
Paths == {"f", "g"}

\* the Data of the attachments of the snip_attachment table, by uuid; "a0" is
\* the uuid of no attachment
AttachmentData == [a1 |-> <<"x">>, a2 |-> <<"y", "z">>]

AttachmentIds == {"a0", "a1", "a2"}

\* the bytes of a file made by another program
OtherData == <<"o">>

\* a working directory in which any path may hold a file of another program
InitFiles ==
    /\ snip = NoRows
    /\ snip_index = NoRows
    /\ \E files \in [Paths -> {NoFile, OtherData}] :
          last = [op |-> "start", files |-> files]

\* Mutant of Refuses: an existing file is kept only when forceWrite is set.
Refuses_WhenForced(files, outfile, forceWrite) == files[outfile] # NoFile /\ forceWrite

\* os.Stat(outfile) returns no error and forceWrite is not set
Refuses(files, outfile, forceWrite) == files[outfile] # NoFile /\ ~forceWrite

\* WriteAttachment(id, outfile, forceWrite): createFails is os.Create
\* returning an error, which leaves the path as it was; n is the number of
\* bytes f.Write has written, all of them when it returns no error
WriteAttachment(id, outfile, forceWrite, createFails, n) ==
    LET files == last.files
        ret(written, err, after) ==
            [op |-> "WriteAttachment", id |-> id, outfile |-> outfile,
             forceWrite |-> forceWrite, written |-> written, err |-> err, files |-> after]
    IN  /\ last' =
              IF id \notin DOMAIN AttachmentData
              THEN ret(0, TRUE, files)
              ELSE IF Refuses(files, outfile, forceWrite)
              THEN ret(0, TRUE, files)
              ELSE IF createFails
              THEN ret(0, TRUE, files)
              ELSE LET data == AttachmentData[id]
                       m == IF n > Len(data) THEN Len(data) ELSE n
                       created == [files EXCEPT ![outfile] = SubSeq(data, 1, m)]
                   IN  IF m < Len(data)
                       THEN ret(0, TRUE, created)
                       ELSE ret(m, FALSE, created)
        /\ UNCHANGED <<snip, snip_index>>

\* the calls of a caller that writes attachments to files
NextFiles ==
    \E id \in AttachmentIds, outfile \in Paths, forceWrite \in BOOLEAN,
       createFails \in BOOLEAN, n \in 0..MaxBytes :
        WriteAttachment(id, outfile, forceWrite, createFails, n)

SpecFiles == InitFiles /\ [][NextFiles]_vars

-----------------------------------------------------------------------------
(* Rename and GetFromUUID on the snip table.                               *)

\* the names a snip is given and renamed to
NewNames == {"n1", "n2"}

\* the in-memory Snip values of a caller that renames
NamedSnips == [UUID : UUIDs, Name : NewNames, Data : {TextCats, TextDogs}]

\* s.Update(): the snip table it leaves and whether it returned an error
Updated(tbl, s) ==
    IF BagCount(tbl, {r \in BagToSet(tbl) : r.UUID = s.UUID}) # 1
    THEN [snip |-> tbl, err |-> TRUE]
    ELSE [snip |-> UpdateRows(tbl, s), err |-> FALSE]

\* s.Rename(newName): s.Name = newName, then s.Update()
Rename(s, newName) ==
    LET res == Updated(snip, [s EXCEPT !.Name = newName])
    IN  /\ snip' = res.snip
        /\ last' = [op |-> "Rename", uuid |-> s.UUID, name |-> newName, data |-> s.Data,
                    err |-> res.err]
        /\ UNCHANGED snip_index

\* GetFromUUID(id) with a full uuid: an error when no record or more than one
\* record has the uuid
GetFromUUID(tbl, id) ==
    LET found == {r \in BagToSet(tbl) : r.UUID = id}
    IN  IF BagCount(tbl, found) = 1
        THEN [err |-> FALSE, snip |-> CHOOSE r \in found : TRUE]
        ELSE [err |-> TRUE, snip |-> [UUID |-> "", Name |-> "", Data |-> <<>>]]

\* GetFromUUID(id)
Get(id) ==
    LET res == GetFromUUID(snip, id)
    IN  /\ last' = [op |-> "GetFromUUID", uuid |-> id, err |-> res.err, snip |-> res.snip]
        /\ UNCHANGED <<snip, snip_index>>

\* the calls of a caller that inserts, renames and reads snips
NextRename ==
    \/ \E s \in NamedSnips : InsertSnip(s)
    \/ \E s \in NamedSnips, newName \in NewNames : Rename(s, newName)
    \/ \E id \in UUIDs : Get(id)

SpecRename == Init /\ [][NextRename]_vars

-----------------------------------------------------------------------------
(* The index command of the CLI: DropIndex, then GetFromUUID and Index for *)
(* every uuid GetAllSnipIDs returns.                                       *)

\* the orders in which SELECT uuid FROM snip can return the records; a uuid
\* that is returned twice fails at its first GetFromUUID, so every record is
\* listed once
IdOrders(tbl) ==
    LET rows == BagToSet(tbl)
    IN  {f \in [1..Cardinality(rows) -> rows] : \A i, j \in DOMAIN f : f[i] = f[j] => i = j}

RECURSIVE IndexAll(_, _, _, _)
\* the loop over ids from its element i on: the index table it leaves and
\* whether it ended with os.Exit(1) on a GetFromUUID error
IndexAll(tbl, idx, order, i) ==
    IF i > Len(order) THEN [index |-> idx, err |-> FALSE]
    ELSE LET got == GetFromUUID(tbl, order[i].UUID)
         IN  IF got.err THEN [index |-> idx, err |-> TRUE]
             ELSE IndexAll(tbl, IndexRows(idx, got.snip), order, i + 1)

\* the index command
Rebuild ==
    /\ \E order \in IdOrders(snip) :
          LET res == IndexAll(snip, DropIndexRows(snip_index), order, 1)
          IN  /\ snip_index' = res.index
              /\ last' = [op |-> "index", err |-> res.err,
                          before |-> BagCardinality(snip_index)]
    /\ UNCHANGED snip

\* the calls of a user who edits, indexes, removes and rebuilds
NextRebuild ==
    \/ \E s \in Snips : InsertSnip(s)
    \/ \E s \in Snips : Update(s)
    \/ \E s \in Snips : Index(s)
    \/ \E id \in UUIDs : Remove(id)
    \/ Rebuild

SpecRebuild == Init /\ [][NextRebuild]_vars

-----------------------------------------------------------------------------
(* SplitWords and CountWords on the Data of a snip that is being typed.    *)

\* the characters a text is typed from
TextChars == {"a", "T", "1", " ", ".", "'"}

\* s := New(): the Data is empty
InitTokens ==
    /\ snip = NoRows
    /\ snip_index = NoRows
    /\ last = [op |-> "New", data |-> <<>>]

\* s.Data += c
Type(c) ==
    /\ last.op = "New"
    /\ Len(last.data) < MaxTextLen
    /\ last' = [op |-> "New", data |-> Append(last.data, c)]
    /\ UNCHANGED <<snip, snip_index>>

\* SplitWords(s.Data)
SplitText ==
    /\ last.op = "New"
    /\ last' = [op |-> "SplitWords", data |-> last.data, words |-> SplitWords(last.data)]
    /\ UNCHANGED <<snip, snip_index>>

\* s.CountWords()
CountText ==
    /\ last.op = "New"
    /\ last' = [op |-> "CountWords", data |-> last.data, count |-> CountWords(last.data)]
    /\ UNCHANGED <<snip, snip_index>>

NextTokens ==
    \/ \E c \in TextChars : Type(c)
    \/ SplitText
    \/ CountText

SpecTokens == InitTokens /\ [][NextTokens]_vars

-----------------------------------------------------------------------------
(* The positions column written and read back, for one term of one snip.   *)

\* the strictly increasing lists of at most MaxPositionsLen positions
PositionLists ==
    {ps \in UNION {[1..n -> 0..MaxPosition] : n \in 0..MaxPositionsLen} :
        \A i \in 1..(Len(ps) - 1) : ps[i] < ps[i + 1]}

\* the snip and the term whose row is written and read
PositionsOwner == CHOOSE id \in UUIDs : TRUE

PositionsTerm == <<"c", "a", "t">>

\* a new database
InitPositions ==
    /\ snip = NoRows
    /\ snip_index = NoRows
    /\ last = [op |-> "CreateNewDatabase"]

\* s.SetIndexTermCount(term, count)
StoreCount(count) ==
    /\ snip_index' = SetIndexTermCount(snip_index, PositionsOwner, PositionsTerm, count)
    /\ last' = [op |-> "SetIndexTermCount", count |-> count]
    /\ UNCHANGED snip

\* s.SetPositions(term, positions)
StorePositions(positions) ==
    /\ snip_index' = SetPositions(snip_index, PositionsOwner, PositionsTerm, positions)
    /\ last' = [op |-> "SetPositions", positions |-> positions]
    /\ UNCHANGED snip

\* s.GetPositions(term) and the parsing of its result in GatherContext
LoadPositions ==
    /\ last' = [op |-> "GetPositions",
                parsed |-> ParsePositions(GetPositions(snip_index, PositionsOwner,
                                                       PositionsTerm))]
    /\ UNCHANGED <<snip, snip_index>>

NextPositions ==
    \/ \E count \in 1..MaxPositionsLen : StoreCount(count)
    \/ \E positions \in PositionLists : StorePositions(positions)
    \/ LoadPositions

SpecPositions == InitPositions /\ [][NextPositions]_vars

-----------------------------------------------------------------------------
(* Index one store statement at a time, with the errors its calls can      *)
(* return and a reader between its statements.  The English stemmer itself *)
(* returns no error; the error return of snowball.Stem is an input here.   *)

\* what s.Index() returned: cause is "none", "stem" or "store"
IndexReturn(id, data, cause) ==
    [op |-> "Index", uuid |-> id, data |-> data, err |-> cause # "none", cause |-> cause]

\* what a reader has read when it has read nothing
NothingSeen == [term |-> <<>>, count |-> 0, positions |-> <<>>]

\* s.Index() inside one of its two loops of store writes: todo holds the terms
\* the range over the map has not yet produced
IndexRunning(id, data, loop, todo) ==
    [op |-> loop, uuid |-> id, data |-> data, err |-> FALSE, todo |-> todo,
     seen |-> NothingSeen]

\* an Index call is between two store writes
Running == last.op \in {"SetIndexTermCount", "SetPositions"}

\* Mutant of IndexBegin: the counts are written before the stems are checked.
IndexBegin_WritesBeforeStemming(s, failAt) ==
    LET dataStemmed == StemmedText[s.Data]
    IN  /\ ~Running
        /\ BagIn(s, snip)
        /\ failAt \in 0..Len(DownCase(WordsOfText[s.Data]))
        /\ snip_index' = SetAllCounts(snip_index, s.UUID, dataStemmed, TermsOf(dataStemmed))
        /\ last' = IF failAt # 0
                   THEN IndexReturn(s.UUID, s.Data, "stem")
                   ELSE IndexRunning(s.UUID, s.Data, "SetPositions", TermsOf(dataStemmed))
        /\ UNCHANGED snip

\* s.Index() up to its first store write: split, lower-case and stem the
\* words; failAt is the number of the word whose Stem call returns an error,
\* 0 when none does
IndexBegin(s, failAt) ==
    LET dataStemmed == StemmedText[s.Data]
    IN  /\ ~Running
        /\ BagIn(s, snip)
        /\ failAt \in 0..Len(DownCase(WordsOfText[s.Data]))
        /\ last' = IF failAt # 0
                   THEN IndexReturn(s.UUID, s.Data, "stem")
                   ELSE IF TermsOf(dataStemmed) = {}
                        THEN IndexReturn(s.UUID, s.Data, "none")
                        ELSE IndexRunning(s.UUID, s.Data, "SetIndexTermCount",
                                          TermsOf(dataStemmed))
        /\ UNCHANGED <<snip, snip_index>>

\* one iteration of the first loop: SetIndexTermCount(term, count), which
\* writes nothing when one of its statements fails
IndexSetCount(term, storeError) ==
    /\ last.op = "SetIndexTermCount"
    /\ term \in last.todo
    /\ IF storeError
       THEN /\ snip_index' = snip_index
            /\ last' = IndexReturn(last.uuid, last.data, "store")
       ELSE /\ snip_index' = SetIndexTermCount(snip_index, last.uuid, term,
                                               CountOf(StemmedText[last.data], term))
            /\ last' = IF last.todo = {term}
                       THEN IndexRunning(last.uuid, last.data, "SetPositions",
                                         TermsOf(StemmedText[last.data]))
                       ELSE IndexRunning(last.uuid, last.data, "SetIndexTermCount",
                                         last.todo \ {term})
    /\ UNCHANGED snip

\* one iteration of the second loop: SetPositions(term, positions)
IndexSetPositions(term, storeError) ==
    /\ last.op = "SetPositions"
    /\ term \in last.todo
    /\ IF storeError
       THEN /\ snip_index' = snip_index
            /\ last' = IndexReturn(last.uuid, last.data, "store")
       ELSE /\ snip_index' = SetPositions(snip_index, last.uuid, term,
                                          PositionsOf(StemmedText[last.data], term))
            /\ last' = IF last.todo = {term}
                       THEN IndexReturn(last.uuid, last.data, "none")
                       ELSE IndexRunning(last.uuid, last.data, "SetPositions",
                                         last.todo \ {term})
    /\ UNCHANGED snip

\* a reader between two store writes of Index: the count SearchIndexTerm
\* selects and the positions GetPositions selects for a term of the snip
Read(term) ==
    /\ Running
    /\ term \in TermsOf(StemmedText[last.data])
    /\ last' = [last EXCEPT !.seen =
                    [term |-> term,
                     count |-> GetIndexTermCount(snip_index, term, last.uuid),
                     positions |-> GetPositions(snip_index, last.uuid, term)]]
    /\ UNCHANGED <<snip, snip_index>>

\* SearchIndexTerm(terms, requireAll) when the Stem calls at the indexes bad
\* return an error
SearchStemError(terms, requireAll, bad) ==
    LET res == SearchIndexTermStemError(snip_index, terms, requireAll, bad)
    IN  /\ ~Running
        /\ bad \subseteq DOMAIN terms
        /\ last' = [op |-> "SearchIndexTerm", terms |-> terms, requireAll |-> requireAll,
                    results |-> res.results, err |-> res.err, reads |-> res.reads,
                    bad |-> bad]
        /\ UNCHANGED <<snip, snip_index>>

\* the stems of the texts a snip may hold
AllStems == UNION {TermsOf(StemmedText[data]) : data \in Texts}

\* the steps of a caller that indexes, and of a reader
NextFault ==
    \/ \E s \in Snips : \E failAt \in 0..Len(WordsOfText[s.Data]) : IndexBegin(s, failAt)
    \/ \E term \in AllStems, storeError \in BOOLEAN : IndexSetCount(term, storeError)
    \/ \E term \in AllStems, storeError \in BOOLEAN : IndexSetPositions(term, storeError)
    \/ \E term \in AllStems : Read(term)

SpecFault == InitSearch /\ [][NextFault]_vars

\* the calls of a caller that indexes and searches with failing Stem calls
NextStemError ==
    \/ \E s \in Snips : Index(s)
    \/ DropIndex
    \/ \E terms \in TermLists, requireAll \in BOOLEAN, bad \in SUBSET (1..MaxTerms) :
          SearchStemError(terms, requireAll, bad)

SpecStemError == InitSearch /\ [][NextStemError]_vars

-----------------------------------------------------------------------------
(* Properties.                                                             *)

\* the rows of the index table
IndexRowSet == BagToSet(snip_index)

\* the rows of the index table that belong to snip id
RowsOfSnip(id) == {r \in IndexRowSet : r.uuid = id}

\* the integers stored in a row's positions column
StoredPositions(r) == ParsePositions(r.positions).positions

\* the stems of the words of a text
StemSet(data) == {Stem(ToLower(w)) : w \in Range(WordsOfText[data])}

\* the snip table holds exactly one record of id, and its Data is data
CurrentText(id, data) ==
    \A s \in BagToSet(snip) : s.UUID = id => s.Data = data /\ snip[s] = 1

\* a row of the snip the last Index call indexed whose stem is not in its text
StaleRow(r) == r.uuid = last.uuid /\ r.term \notin StemSet(last.data)

\* C1: in every state reached by completed calls, the count of every
\* snip_index row equals the number of integers in its stored positions list.
C1_CountEqualsPositions ==
    \A r \in IndexRowSet :
        /\ ~ParsePositions(r.positions).err
        /\ r.count = Len(StoredPositions(r))

\* C1 witness: a snip was re-indexed after its text changed, one of its rows
\* holds two positions and another one is left from the earlier text.
C1_Witness ==
    /\ last.op = "Index"
    /\ \E r \in RowsOfSnip(last.uuid) : r.count = 2 /\ ~StaleRow(r)
    /\ \E r \in RowsOfSnip(last.uuid) : StaleRow(r)

\* C2: after Index on a snip, every row written by the call has strictly
\* increasing positions, each inside the tokenized text, and the stem of the
\* lower-cased token at each position is the row's term.
C2_PositionsPointAtTerm ==
    last.op = "Index" =>
        \A r \in RowsOfSnip(last.uuid) :
            r.term \in StemSet(last.data) =>
                LET ps == StoredPositions(r)
                    W == WordsOfText[last.data]
                IN  /\ ps # <<>>
                    /\ \A i \in 1..(Len(ps) - 1) : ps[i] < ps[i + 1]
                    /\ \A i \in DOMAIN ps :
                          /\ 0 <= ps[i] /\ ps[i] < Len(W)
                          /\ Stem(ToLower(W[ps[i] + 1])) = r.term

\* C2 witness: Index wrote a row whose term occurs twice, the first time as a
\* capitalised plural.
C2_Witness ==
    /\ last.op = "Index"
    /\ last.data = TextCats
    /\ \E r \in RowsOfSnip(last.uuid) : StoredPositions(r) = <<0, 1>>

\* C3: after any sequence of calls made one at a time, snip_index holds at
\* most one row for each (term, uuid) pair.
C3_OneRowPerTermAndSnip ==
    /\ \A r \in IndexRowSet : snip_index[r] = 1
    /\ \A r1, r2 \in IndexRowSet : r1.term = r2.term /\ r1.uuid = r2.uuid => r1 = r2

\* C3 witness: Index ran again on the same snip with the same Data, and the
\* snip has a row for each of its three stems.
C3_Witness ==
    /\ last.op = "Index"
    /\ last.again
    /\ Cardinality(RowsOfSnip(last.uuid)) = 3

\* C4 as claimed: once Index has completed on a snip's current text, every row
\* of the snip has a stem that occurs in that text.
C4_RowsOnlyOfCurrentText ==
    last.op = "Index" /\ CurrentText(last.uuid, last.data) =>
        \A r \in RowsOfSnip(last.uuid) : r.term \in StemSet(last.data)

\* C4 amended: once Index has completed on a snip's current text, every row of
\* the snip either has a stem that occurs in that text or is a row the call
\* found in the table and left as it was.
C4_RowsOfCurrentTextOrUntouched ==
    [][last'.op = "Index" =>
          \A r \in BagToSet(snip_index') :
              r.uuid = last'.uuid =>
                  \/ r.term \in StemSet(last'.data)
                  \/ r \in IndexRowSet /\ snip_index'[r] = snip_index[r]]_vars

\* C4 witness: after Update replaced the text and Index ran, a row of a stem
\* of the earlier text is still there while the stored text no longer has it.
C4_Witness ==
    /\ last.op = "Index"
    /\ CurrentText(last.uuid, last.data)
    /\ \E r \in RowsOfSnip(last.uuid) : r.term = <<"d", "o", "g">> /\ StaleRow(r)

\* C5 as claimed: after Remove(id) has returned, snip_index has no row of id
\* and no search returns id.
C5_RemoveDeletesIndexRows ==
    last.op = "Remove" =>
        /\ RowsOfSnip(last.uuid) = {}
        /\ \A t \in QueryTerms :
              last.uuid \notin DOMAIN SearchIndexTerm(snip_index, <<t>>, FALSE).results

\* C6: Index directly after Index on the same snip with unchanged Data leaves
\* snip_index as the first run left it.
C6_IndexIdempotent ==
    [][(/\ last.op = "Index"
        /\ last'.op = "Index"
        /\ last'.uuid = last.uuid
        /\ last'.data = last.data) => snip_index' = snip_index]_vars

\* C6 witness: the second of two Index calls in succession on a snip whose
\* rows include one with two positions.
C6_Witness ==
    /\ last.op = "Index"
    /\ last.again
    /\ \E r \in RowsOfSnip(last.uuid) : r.count = 2

\* occurrences of a stem among the stemmed, lower-cased words of a text
Occurrences(data, stem) ==
    Cardinality({i \in DOMAIN WordsOfText[data] : Stem(ToLower(WordsOfText[data][i])) = stem})

\* some row of the index table has the stem of the raw term
HasRowForTerm(term) == \E r \in IndexRowSet : r.term = Stem(term)

\* snip id has a row for the stem of the raw term
SnipHasTerm(id, term) == \E r \in RowsOfSnip(id) : r.term = Stem(term)

\* C7: right after Index on a snip, SearchIndexTerm([t], false) contains the
\* snip for every raw term t whose stem is the stem of a token of its text,
\* with the number of occurrences of that stem as Count.
C7_ReadAfterWrite ==
    last.op = "Index" =>
        \A t \in QueryTerms :
            Stem(t) \in StemSet(last.data) =>
                LET r == SearchIndexTerm(snip_index, <<t>>, FALSE)
                IN  /\ ~r.err
                    /\ last.uuid \in DOMAIN r.results
                    /\ r.results[last.uuid] =
                          <<[Term |-> t, Stem |-> Stem(t),
                             Count |-> Occurrences(last.data, Stem(t))]>>

\* C7 witness: Index has just returned on a text in which the stem of a raw
\* term that is not its own stem occurs twice.
C7_Witness ==
    /\ last.op = "Index"
    /\ \E t \in QueryTerms : Stem(t) # t /\ Occurrences(last.data, Stem(t)) = 2

\* C8: SearchIndexTerm with an empty terms slice returns an error, issues no
\* SELECT on snip_index and leaves snip_index as it was.
C8_EmptyQueryRejected ==
    [][last'.op = "SearchIndexTerm" /\ Len(last'.terms) = 0 =>
          /\ last'.err
          /\ last'.reads = 0
          /\ last'.results = EmptyMap
          /\ snip_index' = snip_index]_vars

\* C8 witness: an empty query was made against an index that holds rows.
C8_Witness ==
    /\ last.op = "SearchIndexTerm"
    /\ Len(last.terms) = 0
    /\ IndexRowSet # {}

\* C9: a non-empty query none of whose stems has a row returns the empty map
\* and no error, with and without requireAll; and no match list holds an entry
\* of a term that has no row for that snip.
C9_NoMatchIsNotAnError ==
    last.op = "SearchIndexTerm" /\ Len(last.terms) > 0 =>
        /\ ~last.err
        /\ (\A i \in DOMAIN last.terms : ~HasRowForTerm(last.terms[i])) =>
               last.results = EmptyMap
        /\ \A id \in DOMAIN last.results :
               /\ last.results[id] # <<>>
               /\ \A k \in DOMAIN last.results[id] :
                      SnipHasTerm(id, last.results[id][k].Term)

\* C9 witness: a two-term query under requireAll found no row of its stems in
\* an index that holds rows of other stems.
C9_Witness ==
    /\ last.op = "SearchIndexTerm"
    /\ Len(last.terms) = 2
    /\ last.requireAll
    /\ \A i \in DOMAIN last.terms : ~HasRowForTerm(last.terms[i])
    /\ IndexRowSet # {}
    /\ last.results = EmptyMap /\ ~last.err

\* C10 as claimed: under requireAll a snip is retained exactly when the index
\* holds a row of it for the stem of every raw term, however often a raw term
\* is repeated in terms.
C10_RequireAllRetainsExactlyCovered ==
    last.op = "SearchIndexTerm" /\ last.requireAll /\ Len(last.terms) > 0 =>
        DOMAIN last.results =
            {id \in UUIDs : \A i \in DOMAIN last.terms : SnipHasTerm(id, last.terms[i])}

\* C10 without repetition: the same statement for terms slices that hold no
\* raw term twice.
C10_DistinctTermsRetainExactlyCovered ==
    (/\ last.op = "SearchIndexTerm" /\ last.requireAll /\ Len(last.terms) > 0
     /\ \A i, j \in DOMAIN last.terms : last.terms[i] = last.terms[j] => i = j) =>
        DOMAIN last.results =
            {id \in UUIDs : \A i \in DOMAIN last.terms : SnipHasTerm(id, last.terms[i])}

\* the entries of a match list that carry the raw term as their label
EntriesOf(result, term) == {k \in DOMAIN result : result[k].Term = term}

\* C11: in a query of distinct raw terms, two raw terms with the same stem
\* each get one entry in the match list of every snip that has a row of that
\* stem, labelled with the raw term itself, the shared stem and the row's
\* count; under requireAll both count as present, so a snip that has a row for
\* every term of the query is retained.
C11_SharedStemTrackedPerRawTerm ==
    (/\ last.op = "SearchIndexTerm" /\ ~last.err
     /\ \A i, j \in DOMAIN last.terms : last.terms[i] = last.terms[j] => i = j) =>
        \A i, j \in DOMAIN last.terms :
            i # j /\ Stem(last.terms[i]) = Stem(last.terms[j]) =>
                \A r \in IndexRowSet :
                    r.term = Stem(last.terms[i]) =>
                        /\ (\/ ~last.requireAll
                            \/ \A k \in DOMAIN last.terms : SnipHasTerm(r.uuid, last.terms[k]))
                               => r.uuid \in DOMAIN last.results
                        /\ r.uuid \in DOMAIN last.results =>
                               \A k \in {i, j} :
                                   \E n \in DOMAIN last.results[r.uuid] :
                                       /\ EntriesOf(last.results[r.uuid], last.terms[k]) = {n}
                                       /\ last.results[r.uuid][n] =
                                             [Term |-> last.terms[k], Stem |-> r.term,
                                              Count |-> r.count]

\* C11 witness: a requireAll query of two distinct raw terms with one stem
\* retained a snip with a match list of two entries.
C11_Witness ==
    /\ last.op = "SearchIndexTerm"
    /\ last.requireAll
    /\ Len(last.terms) = 2
    /\ last.terms[1] # last.terms[2]
    /\ Stem(last.terms[1]) = Stem(last.terms[2])
    /\ \E id \in DOMAIN last.results : Len(last.results[id]) = 2

\* two quotients denote the same number
RatEq(x, y) == x.den # 0 /\ y.den # 0 /\ x.num * y.den = y.num * x.den

RECURSIVE TotalOf(_)
\* the sum of the count column over a set of rows of the index table
TotalOf(rows) ==
    IF rows = {} THEN 0
    ELSE LET r == CHOOSE x \in rows : TRUE
         IN  snip_index[r] * r.count + TotalOf(rows \ {r})

\* C12: ScoreCounts(id, terms, counts) is (coverage + prominence) / 2 with
\* coverage = |counts| / |terms| and prominence = |terms| / T, T the sum of
\* count over all rows of id, and prominence = 0 when T = 0; for the counts a
\* search with the same terms returned for id, coverage is more than 0, at
\* most 1, and 1 when every term has a row of id.
C12_ScoreIsMeanOfCoverageAndProminence ==
    last.op = "ScoreCounts" =>
        LET n == Len(CountsOf(last.results, last.uuid))
            m == Len(last.terms)
            T == TotalOf(RowsOfSnip(last.uuid))
        IN  /\ IF T = 0
               THEN RatEq(last.score, Quot(n, 2 * m))
               ELSE RatEq(last.score, Quot(n * T + m * m, 2 * m * T))
            /\ last.uuid \in DOMAIN last.results =>
                   /\ 0 < n /\ n <= m
                   /\ (\A i \in DOMAIN last.terms : SnipHasTerm(last.uuid, last.terms[i]))
                          => n = m

\* C12 witness: a snip whose only row has count 2 matched one term of a query
\* of two, and its score is (1/2 + 2/2) / 2 = 3/4.
C12_Witness ==
    /\ last.op = "ScoreCounts"
    /\ Len(last.terms) = 2
    /\ Len(CountsOf(last.results, last.uuid)) = 1
    /\ \E r \in RowsOfSnip(last.uuid) : r.count = 2 /\ RowsOfSnip(last.uuid) = {r}
    /\ RatEq(last.score, Quot(3, 4))

\* the smaller and the larger of two integers
Min(a, b) == IF a <= b THEN a ELSE b

Max(a, b) == IF a >= b THEN a ELSE b

\* the 0-based word numbers of a text at which the stem occurs
OccurrenceSet(data, stem) ==
    {i - 1 : i \in {j \in DOMAIN WordsOfText[data] :
                        Stem(ToLower(WordsOfText[data][j])) = stem}}

\* the positions stored for (stem, id), none when there is no row
PositionsStored(id, stem) ==
    IF \E r \in RowsOfSnip(id) : r.term = stem
    THEN StoredPositions(CHOOSE r \in RowsOfSnip(id) : r.term = stem)
    ELSE <<>>

\* the index of snip id is current for the stem: data is the text the table
\* holds for id, and the stored positions of the stem are its occurrences in
\* data, in ascending order
IndexCurrent(id, data, stem) ==
    LET ps == PositionsStored(id, stem)
    IN  /\ CurrentText(id, data)
        /\ \A r1, r2 \in RowsOfSnip(id) : r1.term = stem /\ r2.term = stem => r1 = r2
        /\ {ps[k] : k \in DOMAIN ps} = OccurrenceSet(data, stem)
        /\ \A k \in 1..(Len(ps) - 1) : ps[k] < ps[k + 1]

\* the last call was GatherContext on a snip whose index is current for the
\* stem of the term
ContextOnCurrentIndex ==
    /\ last.op = "GatherContext"
    /\ IndexCurrent(last.uuid, last.data, Stem(last.terms[1]))

\* C13: for a snip whose index is current, GatherContext(term, w) returns one
\* TermContext per stored position p of the stem of term, in stored order,
\* with Before = W[max(0, p-w) .. p-1], Term = W[p] and
\* After = W[p+1 .. min(len(W)-1, p+w)] (0-based), W the words of Data, and
\* Before and After hold at most w words each.
C13_ContextWindows ==
    ContextOnCurrentIndex =>
        LET ps == PositionsStored(last.uuid, Stem(last.terms[1]))
            W == WordsOfText[last.data]
            w == last.adjacent
        IN  /\ ~last.panic /\ ~last.err
            /\ Len(last.ctxAll) = Len(ps)
            /\ \A k \in DOMAIN ps :
                  LET p == ps[k]
                      ctx == last.ctxAll[k]
                  IN  /\ ctx.Before = SubSeq(W, Max(0, p - w) + 1, p)
                      /\ ctx.Term = W[p + 1]
                      /\ ctx.After = SubSeq(W, p + 2, Min(Len(W) - 1, p + w) + 1)
                      /\ Len(ctx.Before) <= w
                      /\ Len(ctx.After) <= w

\* C13 witness: a context of one word on either side of a token that is not
\* the query term as typed, taken from a three-word text.
C13_Witness ==
    /\ ContextOnCurrentIndex
    /\ last.adjacent = 1
    /\ \E k \in DOMAIN last.ctxAll :
          /\ last.ctxAll[k].Term # last.terms[1]
          /\ Len(last.ctxAll[k].Before) = 1
          /\ Len(last.ctxAll[k].After) = 1

\* C14 as claimed: every TermContext has BeforeStart = max(0, p-w) + 1 and
\* AfterEnd = min(len(W)-1, p+w) + 1, also when p = 0 or w = 0.
C14_DisplayBounds ==
    ContextOnCurrentIndex /\ ~last.panic /\ ~last.err =>
        LET ps == PositionsStored(last.uuid, Stem(last.terms[1]))
            W == WordsOfText[last.data]
            w == last.adjacent
        IN  \A k \in DOMAIN ps \cap DOMAIN last.ctxAll :
                /\ last.ctxAll[k].BeforeStart = Max(0, ps[k] - w) + 1
                /\ last.ctxAll[k].AfterEnd = Min(Len(W) - 1, ps[k] + w) + 1

\* C14 where a word precedes the match inside the window: the same statement
\* for the positions p > 0 with w > 0.
C14_DisplayBoundsWithWordBefore ==
    ContextOnCurrentIndex /\ ~last.panic /\ ~last.err /\ last.adjacent > 0 =>
        LET ps == PositionsStored(last.uuid, Stem(last.terms[1]))
            W == WordsOfText[last.data]
            w == last.adjacent
        IN  \A k \in DOMAIN ps \cap DOMAIN last.ctxAll :
                ps[k] > 0 =>
                    /\ last.ctxAll[k].BeforeStart = Max(0, ps[k] - w) + 1
                    /\ last.ctxAll[k].AfterEnd = Min(Len(W) - 1, ps[k] + w) + 1

\* C15 as claimed: GatherContext does not crash on a stored position that is
\* out of range for the words of the snip's Data, and returns the windows of
\* the positions that are in range.
C15_StalePositionDoesNotCrash ==
    last.op = "GatherContext" =>
        LET ps == PositionsStored(last.uuid, Stem(last.terms[1]))
            W == WordsOfText[last.data]
            inRange == {k \in DOMAIN ps : ps[k] < Len(W)}
        IN  /\ ~last.panic
            /\ \A k \in inRange :
                  \E n \in DOMAIN last.ctxAll : last.ctxAll[n].Term = W[ps[k] + 1]

\* C16: when the Stem call of a token of the snip returns an error, Index
\* returns an error and snip_index is as it was before the call.
C16_StemFailureWritesNothing ==
    [][last'.op = "Index" /\ last'.cause = "stem" =>
          /\ last'.err
          /\ snip_index' = snip_index]_vars

\* C16 witness: Index failed on a Stem call for a snip that has rows from an
\* earlier, complete Index.
C16_Witness ==
    /\ last.op = "Index"
    /\ last.cause = "stem"
    /\ last.err
    /\ \E r \in RowsOfSnip(last.uuid) : r.count = Len(StoredPositions(r))

\* C17 as claimed: when the Stem call of a query term returns an error,
\* SearchIndexTerm returns an error and no result.
C17_StemFailureAbortsSearch ==
    last.op = "SearchIndexTerm" /\ last.bad # {} =>
        /\ last.err
        /\ last.results = EmptyMap

\* C18 as claimed: when a store operation of Index has failed, Index has
\* returned the error and every row of the snip has a count equal to the
\* length of its stored positions list.
C18_StoreFailureLeavesRowsInSync ==
    last.op = "Index" /\ last.cause = "store" =>
        /\ last.err
        /\ \A r \in RowsOfSnip(last.uuid) :
              /\ ~ParsePositions(r.positions).err
              /\ r.count = Len(StoredPositions(r))

\* C19 as claimed: what a reader reads for a term between two store writes of
\* Index is a count equal to the length of the positions list.
C19_ReaderSeesRowsInSync ==
    Running =>
        /\ ~ParsePositions(last.seen.positions).err
        /\ last.seen.count = Len(ParsePositions(last.seen.positions).positions)

\* the copies of the rows of a table that belong to another snip than id
RowsOfOthers(idx, id) ==
    [r \in {x \in BagToSet(idx) : x.uuid # id} |-> idx[r]]

\* C20: Index on a snip leaves every row of another uuid as it was, none
\* added, changed or deleted; and indexing the snip and then another snip of
\* the table gives the same snip_index as indexing them the other way round.
C20_IndexTouchesOwnRowsOnly ==
    [][last'.op = "Index" =>
          /\ RowsOfOthers(snip_index', last'.uuid) = RowsOfOthers(snip_index, last'.uuid)
          /\ \A b \in BagToSet(snip) :
                b.UUID # last'.uuid =>
                    IndexRows(snip_index', b) =
                        IndexRows(IndexRows(snip_index, b),
                                  [UUID |-> last'.uuid, Name |-> b.Name,
                                   Data |-> last'.data])]_vars

\* C20 witness: Index has run on a snip while another snip has a row of the
\* same term with another count.
C20_Witness ==
    /\ last.op = "Index"
    /\ \E r1 \in RowsOfSnip(last.uuid) :
          \E r2 \in IndexRowSet :
              r2.uuid # r1.uuid /\ r2.term = r1.term /\ r2.count # r1.count

\* C21: Index leaves one row for every distinct stem of the text and deletes
\* no row: every row of the snip for a stem that is not in the text it was
\* indexed with is still there after the call, with the count and positions
\* it had, and the call adds no row for such a stem.
C21_IndexUpsertsAndNeverDeletes ==
    [][last'.op = "Index" =>
          LET after == {r \in BagToSet(snip_index') : r.uuid = last'.uuid}
              before == RowsOfSnip(last'.uuid)
              absent(r) == r.term \notin StemSet(last'.data)
          IN  /\ \A r \in before : absent(r) => r \in after /\ snip_index'[r] = snip_index[r]
              /\ \A r \in after : absent(r) => r \in before
              /\ \A t \in StemSet(last'.data) :
                    \E r \in after :
                        /\ r.term = t
                        /\ snip_index'[r] = 1
                        /\ \A r2 \in after : r2.term = t => r2 = r]_vars

\* C21 witness: a snip was indexed again after its text lost two stems, and
\* the rows of both are in the table with one position each.
C21_Witness ==
    /\ last.op = "Index"
    /\ CurrentText(last.uuid, last.data)
    /\ Cardinality({r \in RowsOfSnip(last.uuid) :
                       StaleRow(r) /\ r.count = 1 /\ Len(StoredPositions(r)) = 1}) = 2

\* C22: the list GatherContext parses from what GetPositions returns is the
\* strictly increasing list of non-negative integers that SetPositions has
\* just written to the row, in the same order and without error; with no row,
\* or a row whose positions are empty, the parsed list is empty and there is
\* no error.
C22_PositionsRoundTrip ==
    [][last'.op = "GetPositions" =>
          /\ ~last'.parsed.err
          /\ (last.op = "SetPositions" /\ IndexRowSet # {}) =>
                 last'.parsed.positions = last.positions
          /\ (IndexRowSet = {} \/ \A r \in IndexRowSet : r.positions = <<>>) =>
                 last'.parsed.positions = <<>>]_vars

\* C22 witness: a list of two positions, the second of two digits, was read
\* back from the row.
C22_Witness ==
    /\ last.op = "GetPositions"
    /\ Len(last.parsed.positions) = 2
    /\ last.parsed.positions[2] >= 10
    /\ \E r \in IndexRowSet : Len(r.positions) >= 4

\* a character that is a letter or a digit
IsAlnum(c) == c \in Range(LowerLetters) \cup Range(UpperLetters) \cup Range(Digits)

\* words occur in data one after the other, without overlap, each one
\* bounded by the ends of data or by characters that are no letter or digit
InDocumentOrder(words, data) ==
    \E at \in [DOMAIN words -> 1..Len(data)] :
        /\ \A i \in DOMAIN words :
              /\ at[i] + Len(words[i]) - 1 <= Len(data)
              /\ SubSeq(data, at[i], at[i] + Len(words[i]) - 1) = words[i]
              /\ at[i] > 1 => ~IsAlnum(data[at[i] - 1])
              /\ at[i] + Len(words[i]) <= Len(data) => ~IsAlnum(data[at[i] + Len(words[i])])
        /\ \A i \in 1..(Len(words) - 1) : at[i] + Len(words[i]) < at[i + 1]

\* the number of tokens of a text
TokenCount(data) == Len(SplitWords(data))

WordEnds(data) ==
    {k \in DOMAIN data :
        /\ data[k] # " "
        /\ k = Len(data) \/ data[k + 1] = " "
        /\ \E j \in 1..k : /\ IsAlnum(data[j])
                            /\ \A m \in j..k : data[m] # " "}

\* C24 as claimed: SplitWords returns one token for every whitespace-separated
\* word of the text that holds a letter or a digit, also when the word has an
\* apostrophe inside.
C24_OneTokenPerWord ==
    last.op = "SplitWords" => Len(last.words) = Cardinality(WordEnds(last.data))

\* the number of records of the snip table with the uuid
RecordsOf(id) == BagCount(snip, {r \in BagToSet(snip) : r.UUID = id})

\* C25: when exactly one record has the uuid of s, s.Update() with a changed
\* Name returns no error and GetFromUUID(s.UUID) then returns the new Name
\* with the UUID and Data of s, the other records being as they were; when
\* the number of records with the uuid is not one, Update returns an error
\* and the snip table is unchanged.
C25_UpdateWritesNameOfOneRecord ==
    [][last'.op = "Rename" =>
          IF RecordsOf(last'.uuid) = 1
          THEN /\ ~last'.err
               /\ GetFromUUID(snip', last'.uuid) =
                     [err |-> FALSE,
                      snip |-> [UUID |-> last'.uuid, Name |-> last'.name,
                                Data |-> last'.data]]
               /\ \A r \in BagToSet(snip) \cup BagToSet(snip') :
                     r.UUID # last'.uuid =>
                         /\ r \in BagToSet(snip) /\ r \in BagToSet(snip')
                         /\ snip'[r] = snip[r]
          ELSE /\ last'.err
               /\ snip' = snip]_vars

\* C25 witness: a snip that was inserted as n1 was renamed to n2 while the
\* table holds another snip, and the table holds it under the new name.
C25_Witness ==
    /\ last.op = "Rename"
    /\ ~last.err
    /\ last.name = "n2"
    /\ BagCardinality(snip) = 2
    /\ BagIn([UUID |-> last.uuid, Name |-> "n2", Data |-> last.data], snip)

\* the scores of a printed list do not increase
NonIncreasing(printed) ==
    \A i, j \in DOMAIN printed :
        i < j => printed[i].Score.num * printed[j].Score.den
                     >= printed[j].Score.num * printed[i].Score.den

\* no result left out has a greater score than a printed one
HighestPrinted(printed, dropped) ==
    \A i \in DOMAIN printed, j \in DOMAIN dropped :
        printed[i].Score.num * dropped[j].Score.den
            >= dropped[j].Score.num * printed[i].Score.den

C27_NoOverwriteUnlessForced ==
    [][last'.op = "WriteAttachment" =>
          /\ \A path \in Paths :
                (last.files[path] # NoFile /\ last'.files[path] # last.files[path]) =>
                    last'.forceWrite /\ path = last'.outfile
          /\ (last.files[last'.outfile] # NoFile /\ ~last'.forceWrite) =>
                 /\ last'.err
                 /\ last'.written = 0
                 /\ last'.files = last.files]_vars

\* C27 witness: an attachment that exists was not written, without
\* forceWrite, to a path at which a file of another program is.
C27_Witness ==
    /\ last.op = "WriteAttachment"
    /\ last.id \in DOMAIN AttachmentData
    /\ ~last.forceWrite
    /\ last.files[last.outfile] = OtherData
    /\ last.err
    /\ last.written = 0

\* the row of the index table that is exact for stem t of a snip
ExactRow(s, t) ==
    \E ps \in [1..Cardinality(OccurrenceSet(s.Data, t)) -> OccurrenceSet(s.Data, t)] :
        /\ \A k \in 1..(Len(ps) - 1) : ps[k] < ps[k + 1]
        /\ \E r \in RowsOfSnip(s.UUID) :
              /\ r.term = t
              /\ r.count = Len(ps)
              /\ ~ParsePositions(r.positions).err
              /\ StoredPositions(r) = ps
              /\ snip_index[r] = 1
              /\ \A r2 \in RowsOfSnip(s.UUID) : r2.term = t => r2 = r

\* C28: after the index command has indexed every snip, snip_index has a row
\* (t, doc) exactly when doc is a record of the snip table and stem t occurs
\* in its tokenized text, one row for each, with the count and the positions
\* of t in that text; no other row is left.
C28_RebuildIsExact ==
    last.op = "index" /\ ~last.err =>
        /\ \A s \in BagToSet(snip) : \A t \in StemSet(s.Data) : ExactRow(s, t)
        /\ \A r \in IndexRowSet :
              \E s \in BagToSet(snip) : s.UUID = r.uuid /\ r.term \in StemSet(s.Data)

\* C28 witness: the index command left fewer rows than it found, all of them
\* rows of the one snip of the table.
C28_Witness ==
    /\ last.op = "index"
    /\ ~last.err
    /\ BagCardinality(snip) = 1
    /\ IndexRowSet # {}
    /\ last.before > BagCardinality(snip_index)

\* the word numbers of a text
WordNumbers(data) == 0..(Len(WordsOfText[data]) - 1)

\* the word numbers stored in a row, as a set
PositionSet(r) == {StoredPositions(r)[k] : k \in DOMAIN StoredPositions(r)}

\* the rows partition the word numbers of the text: every row holds word
\* numbers of the text only, none twice, and every word number is in the list
\* of exactly one row
Partition(rows, data) ==
    /\ \A r \in rows :
          /\ ~ParsePositions(r.positions).err
          /\ snip_index[r] = 1
          /\ PositionSet(r) \subseteq WordNumbers(data)
          /\ Cardinality(PositionSet(r)) = Len(StoredPositions(r))
    /\ \A p \in WordNumbers(data) :
          Cardinality({r \in rows : p \in PositionSet(r)}) = 1

\* C29 as claimed: after a successful Index of a snip's current text, the
\* positions lists of the snip's rows partition {0, ..., len(W)-1}, and
\* CumulativeTermsCount(id) equals CountWords().
C29_RowsPartitionWords ==
    last.op = "Index" /\ CurrentText(last.uuid, last.data) =>
        /\ Partition(RowsOfSnip(last.uuid), last.data)
        /\ CumulativeTermsCount(snip_index, last.uuid) = Len(WordsOfText[last.data])

\* C29 amended: after a successful Index of a snip's current text, the
\* positions lists of the snip's rows for the stems of that text partition
\* {0, ..., len(W)-1}, and CumulativeTermsCount(id) equals CountWords() plus
\* the counts of the rows left from stems of earlier texts.
C29_CurrentRowsPartitionWords ==
    last.op = "Index" /\ CurrentText(last.uuid, last.data) =>
        LET rows == RowsOfSnip(last.uuid)
            stale == {r \in rows : StaleRow(r)}
        IN  /\ Partition(rows \ stale, last.data)
            /\ CumulativeTermsCount(snip_index, last.uuid)
                   = Len(WordsOfText[last.data]) + TotalOf(stale)

\* C29 witness: a snip of two words of one stem was indexed after its text
\* changed; one row holds both word numbers and the sum of the counts is
\* more than the number of words.
C29_Witness ==
    /\ last.op = "Index"
    /\ CurrentText(last.uuid, last.data)
    /\ Len(WordsOfText[last.data]) = 2
    /\ \E r \in RowsOfSnip(last.uuid) : ~StaleRow(r) /\ PositionSet(r) = {0, 1}
    /\ CumulativeTermsCount(snip_index, last.uuid) > 2

\* the last call was GatherContext(t, w) on a snip whose text is the text that
\* was indexed, and a search for t returns the snip
ContextOfSearchResult ==
    /\ last.op = "GatherContext"
    /\ CurrentText(last.uuid, last.data)
    /\ \A t \in StemSet(last.data) : ExactRow([UUID |-> last.uuid, Data |-> last.data], t)
    /\ last.uuid \in DOMAIN SearchIndexTerm(snip_index, last.terms, FALSE).results

\* GatherContext returned one context per occurrence the search counted, each
\* on a word with the stem of the term
ContextsMatchSearch ==
    /\ ~last.panic
    /\ ~last.err
    /\ \A m \in Range(SearchIndexTerm(snip_index, last.terms, FALSE).results[last.uuid]) :
          Len(last.ctxAll) = m.Count
    /\ \A k \in DOMAIN last.ctxAll : Stem(last.ctxAll[k].Term) = Stem(last.terms[1])

\* C30 as claimed: for a snip SearchIndexTerm returns for raw term t with
\* Count c, whose text has not changed since it was indexed, GatherContext(t, w)
\* returns exactly c contexts and the stem of each context's Term is the stem
\* of t.
C30_ContextsMatchSearch == ContextOfSearchResult => ContextsMatchSearch

\* C30 amended: the same when the stem of t occurs in the snip's text; when it
\* does not (the snip is returned through a row left from an earlier text),
\* GatherContext panics on a word number beyond the text or returns c
\* contexts on words with other stems.
C30_ContextsMatchSearchUnlessStale ==
    ContextOfSearchResult =>
        IF Stem(last.terms[1]) \in StemSet(last.data)
        THEN ContextsMatchSearch
        ELSE /\ ~last.err
             /\ \/ last.panic
                \/ /\ \A m \in Range(SearchIndexTerm(snip_index, last.terms,
                                                        FALSE).results[last.uuid]) :
                          Len(last.ctxAll) = m.Count
                   /\ \A k \in DOMAIN last.ctxAll :
                          Stem(last.ctxAll[k].Term) # Stem(last.terms[1])

\* C30 witness: a search for Cats counts two occurrences in a snip that also
\* has a row of an earlier text, and GatherContext returned two contexts, one
\* on a word that is not the raw term.
C30_Witness ==
    /\ ContextOfSearchResult
    /\ last.terms = <<<<"C", "a", "t", "s">>>>
    /\ Len(last.ctxAll) = 2
    /\ \E k \in DOMAIN last.ctxAll : last.ctxAll[k].Term # last.terms[1]
    /\ \E r \in RowsOfSnip(last.uuid) : StaleRow(r)

====
